---------------------------- MODULE Spec2Model ----------------------------
(***************************************************************************)
(* tpclash runtime supervisor (main.go, rootCmd.Run).                      *)
(*                                                                         *)
(* Three tasks of the supervisor process are modelled: the main control    *)
(* flow, the config watcher that feeds updateCh, and the reload consumer   *)
(* goroutine.  The engine (the clash child process), the OS signals and    *)
(* the outcomes of the external calls are the environment.                 *)
(***************************************************************************)
EXTENDS Naturals, Sequences, FiniteSets

(* Number of configuration texts the watcher emits in one run, the first   *)
(* one included.                                                           *)
MaxUpdates == 3

(* The signals signal.NotifyContext is registered for.                     *)
Signals == {"SIGINT", "SIGTERM", "SIGHUP"}

(* Configuration texts the source can hold: "A" parses as it is, "B?" is   *)
(* the valid text "B" with one of the mistakes the auto-fix pass repairs,  *)
(* "X" cannot be parsed.                                                   *)
Texts == {"A", "B?", "X"}

NoText == "none"

(* AutoFix: the normalisation pass applied to a later config text.         *)
AutoFix(t) == IF t = "B?" THEN "B" ELSE t

(* CheckConfig: err == nil exactly for the texts the engine's grammar      *)
(* accepts.                                                                *)
CheckConfigOk(t) == t \in {"A", "B"}

NoValue == [gen |-> 0, text |-> NoText]

(* What is left of a file whose write failed after it was opened.          *)
Truncated == "truncated"

(* os.WriteFile: the contents clashConfPath can have afterwards.  A failed *)
(* call either never opened the file or left it cut short.                 *)
WriteFile(old, new, ok) == IF ok THEN {new} ELSE {old, Truncated}

VARIABLES
    pc,             \* position of the main control flow in rootCmd.Run
    ctxDone,        \* ctx.Done() is closed
    cause,          \* what cancelled ctx: a signal, or "cancel" (cancel() of line 83/87)
    updateCh,       \* values sent on updateCh and not yet received
    sent,           \* texts the watcher has emitted so far, in generation order
    clashConfStr,   \* the value received at line 57
    file,           \* contents of clashConfPath
    cmdProcess,     \* cmd.Process != nil
    engine,         \* the child process: "none", "running", "exited", "killed"
    engineConf,     \* the configuration the engine has applied
    proxy,          \* host redirection rules: "Disabled" or "Enabled"
    cpc,            \* position of the reload consumer goroutine
    ccStr,          \* the consumer's loop variable
    ccAfterCancel,  \* ccStr was received when ctx was already cancelled
    ccSame,         \* ccStr was received equal to the contents of clashConfPath
    sigInflight,    \* generation whose reload request was in flight when the signal came, or 0
    inflight,       \* reload HTTP requests sent and not yet returned
    spawnAttempted, \* cmd.Start() has been called
    enableCalls,    \* number of EnableProxy invocations
    disableCalls,   \* number of DisableProxy invocations
    disableErr,     \* DisableProxy returned an error
    killIssued,     \* cmd.Process.Kill() has been called
    results,        \* outcome of each value the consumer has finished with
    reloadGens      \* generations for which a reload request was sent

vars == <<pc, ctxDone, cause, updateCh, sent, clashConfStr, file, cmdProcess,
          engine, engineConf, proxy, cpc, ccStr, ccAfterCancel, ccSame,
          sigInflight, inflight, spawnAttempted, enableCalls, disableCalls, disableErr, killIssued,
          results, reloadGens>>

mainVars == <<pc, clashConfStr, cmdProcess, spawnAttempted, enableCalls,
              disableCalls, disableErr, killIssued>>
consumerVars == <<cpc, ccStr, ccAfterCancel, ccSame, inflight, results, reloadGens>>
watchVars == <<updateCh, sent>>
ctxVars == <<ctxDone, cause, sigInflight>>
worldVars == <<file, engine, engineConf, proxy>>

(* The supervisor process is running: logrus.Fatal and the return from Run *)
(* end every goroutine of the process.                                     *)
Alive == pc \notin {"stopped", "fatal"}

Init ==
    /\ pc = "watch"
    /\ ctxDone = FALSE
    /\ cause = "none"
    /\ updateCh = <<>>
    /\ sent = <<>>
    /\ clashConfStr = NoValue
    /\ file = NoText
    /\ cmdProcess = FALSE
    /\ engine = "none"
    /\ engineConf = NoText
    /\ proxy = "Disabled"
    /\ cpc = "off"
    /\ ccStr = NoValue
    /\ ccAfterCancel = FALSE
    /\ ccSame = FALSE
    /\ sigInflight = 0
    /\ inflight = 0
    /\ spawnAttempted = FALSE
    /\ enableCalls = 0
    /\ disableCalls = 0
    /\ disableErr = FALSE
    /\ killIssued = FALSE
    /\ results = <<>>
    /\ reloadGens = {}

-----------------------------------------------------------------------------
(* Lifecycle context                                                       *)

(* One of the registered signals is delivered: ctx is cancelled.           *)
Signal ==
    /\ Alive
    /\ ~ctxDone
    /\ \E sig \in Signals : cause' = sig
    /\ ctxDone' = TRUE
    /\ sigInflight' = IF cpc = "http" THEN ccStr.gen ELSE 0
    /\ UNCHANGED <<mainVars, consumerVars, watchVars, worldVars>>

-----------------------------------------------------------------------------
(* Config source watcher                                                   *)

(* WatchConfig: the first fetch is synchronous; its failure is fatal.      *)
WatchConfig ==
    /\ pc = "watch"
    /\ \/ \E t \in Texts :
            /\ updateCh' = <<[gen |-> 1, text |-> t]>>
            /\ sent' = <<t>>
            /\ pc' = "recv_first"
       \/ /\ pc' = "fatal"
          /\ UNCHANGED watchVars
    /\ UNCHANGED <<clashConfStr, cmdProcess, spawnAttempted, enableCalls,
                   disableCalls, disableErr, killIssued>>
    /\ UNCHANGED <<consumerVars, ctxVars, worldVars>>

(* A later interval tick: the watcher emits the text it fetched, unless    *)
(* ctx is cancelled.                                                       *)
WatchTick ==
    /\ Alive
    /\ pc # "watch"
    /\ ~ctxDone
    /\ Len(sent) < MaxUpdates
    /\ \E t \in Texts :
         /\ updateCh' = Append(updateCh, [gen |-> Len(sent) + 1, text |-> t])
         /\ sent' = Append(sent, t)
    /\ UNCHANGED <<mainVars, consumerVars, ctxVars, worldVars>>

-----------------------------------------------------------------------------
(* Main control flow: startup                                              *)

(* RecvFirst with the newest buffered value taken in place of the oldest.   *)
RecvFirst_Newest ==
    /\ pc = "recv_first"
    /\ updateCh # <<>>
    /\ clashConfStr' = updateCh[Len(updateCh)]
    /\ updateCh' = SubSeq(updateCh, 1, Len(updateCh) - 1)
    /\ pc' = "check"
    /\ UNCHANGED <<cmdProcess, spawnAttempted, enableCalls, disableCalls,
                   disableErr, killIssued, sent>>
    /\ UNCHANGED <<consumerVars, ctxVars, worldVars>>

(* clashConfStr := <-updateCh                                              *)
RecvFirst ==
    /\ pc = "recv_first"
    /\ updateCh # <<>>
    /\ clashConfStr' = Head(updateCh)
    /\ updateCh' = Tail(updateCh)
    /\ pc' = "check"
    /\ UNCHANGED <<cmdProcess, spawnAttempted, enableCalls, disableCalls,
                   disableErr, killIssued, sent>>
    /\ UNCHANGED <<consumerVars, ctxVars, worldVars>>

(* CheckFirst with the reload consumer started right after it, as if the   *)
(* go statement of line 100 stood before the write of line 68.             *)
CheckFirst_ThenGo ==
    /\ pc = "check"
    /\ pc' = IF CheckConfigOk(clashConfStr.text) THEN "write" ELSE "fatal"
    /\ cpc' = "recv"
    /\ UNCHANGED <<clashConfStr, cmdProcess, spawnAttempted, enableCalls,
                   disableCalls, disableErr, killIssued>>
    /\ UNCHANGED <<ccStr, ccAfterCancel, ccSame, inflight, results, reloadGens>>
    /\ UNCHANGED <<watchVars, ctxVars, worldVars>>

(* CheckFirst with the error logged and not fatal.                         *)
CheckFirst_NotFatal ==
    /\ pc = "check"
    /\ pc' = "write"
    /\ UNCHANGED <<clashConfStr, cmdProcess, spawnAttempted, enableCalls,
                   disableCalls, disableErr, killIssued>>
    /\ UNCHANGED <<consumerVars, watchVars, ctxVars, worldVars>>

(* if _, err := CheckConfig(clashConfStr); err != nil { logrus.Fatal }     *)
CheckFirst ==
    /\ pc = "check"
    /\ pc' = IF CheckConfigOk(clashConfStr.text) THEN "write" ELSE "fatal"
    /\ UNCHANGED <<clashConfStr, cmdProcess, spawnAttempted, enableCalls,
                   disableCalls, disableErr, killIssued>>
    /\ UNCHANGED <<consumerVars, watchVars, ctxVars, worldVars>>

(* WriteFirst with the write error logged and not fatal.                   *)
WriteFirst_NotFatal ==
    /\ pc = "write"
    /\ \E ok \in BOOLEAN :
         /\ file' \in WriteFile(file, clashConfStr.text, ok)
         /\ pc' = "start"
    /\ UNCHANGED <<clashConfStr, cmdProcess, spawnAttempted, enableCalls,
                   disableCalls, disableErr, killIssued>>
    /\ UNCHANGED <<engine, engineConf, proxy>>
    /\ UNCHANGED <<consumerVars, watchVars, ctxVars>>

(* os.WriteFile(clashConfPath, clashConfStr); an error is fatal.           *)
WriteFirst ==
    /\ pc = "write"
    /\ \E ok \in BOOLEAN :
         /\ file' \in WriteFile(file, clashConfStr.text, ok)
         /\ pc' = IF ok THEN "start" ELSE "fatal"
    /\ UNCHANGED <<clashConfStr, cmdProcess, spawnAttempted, enableCalls,
                   disableCalls, disableErr, killIssued>>
    /\ UNCHANGED <<engine, engineConf, proxy>>
    /\ UNCHANGED <<consumerVars, watchVars, ctxVars>>

(* cmd.Start(): on success the child runs with the config file it finds   *)
(* at clashConfPath; on failure cmd.Process stays nil and cancel() is      *)
(* called, and control goes on to line 90 either way.                      *)
CmdStart ==
    /\ pc = "start"
    /\ spawnAttempted' = TRUE
    /\ \E ok \in BOOLEAN :
         IF ok
         THEN /\ cmdProcess' = TRUE
              /\ engine' = "running"
              /\ engineConf' = file
              /\ UNCHANGED ctxVars
         ELSE /\ cmdProcess' = FALSE
              /\ ctxDone' = TRUE
              /\ cause' = IF ctxDone THEN cause ELSE "cancel"
              /\ UNCHANGED sigInflight
              /\ UNCHANGED <<engine, engineConf>>
    /\ pc' = "newproxy"
    /\ UNCHANGED <<clashConfStr, enableCalls, disableCalls, disableErr,
                   killIssued, file, proxy>>
    /\ UNCHANGED <<consumerVars, watchVars>>

(* proxyMode, err := NewProxyMode(&conf); an error is fatal.               *)
NewProxyMode ==
    /\ pc = "newproxy"
    /\ \E ok \in BOOLEAN : pc' = IF ok THEN "enable" ELSE "fatal"
    /\ UNCHANGED <<clashConfStr, cmdProcess, spawnAttempted, enableCalls,
                   disableCalls, disableErr, killIssued>>
    /\ UNCHANGED <<consumerVars, watchVars, ctxVars, worldVars>>

(* The rules after EnableProxy returned: installed when it succeeded.      *)
RulesAfterEnable(ok, rules) == IF ok THEN "Enabled" ELSE rules

(* The rules after DisableProxy returned: removed when it succeeded.       *)
RulesAfterDisable(ok, rules) == IF ok THEN "Disabled" ELSE rules

(* EnableProxy with the error logged and not fatal.                        *)
EnableProxy_NotFatal ==
    /\ pc = "enable"
    /\ enableCalls' = enableCalls + 1
    /\ \E ok \in BOOLEAN : proxy' = RulesAfterEnable(ok, proxy)
    /\ pc' = "go"
    /\ UNCHANGED <<clashConfStr, cmdProcess, spawnAttempted, disableCalls,
                   disableErr, killIssued, file, engine, engineConf>>
    /\ UNCHANGED <<consumerVars, watchVars, ctxVars>>

(* proxyMode.EnableProxy(); an error is fatal.                             *)
EnableProxy ==
    /\ pc = "enable"
    /\ enableCalls' = enableCalls + 1
    /\ \E ok \in BOOLEAN :
         /\ proxy' = RulesAfterEnable(ok, proxy)
         /\ pc' = IF ok THEN "go" ELSE "fatal"
    /\ UNCHANGED <<clashConfStr, cmdProcess, spawnAttempted, disableCalls,
                   disableErr, killIssued, file, engine, engineConf>>
    /\ UNCHANGED <<consumerVars, watchVars, ctxVars>>

(* go func() { for ccStr := range updateCh ... }()                         *)
GoReload ==
    /\ pc = "go"
    /\ cpc' = "recv"
    /\ pc' = "wait"
    /\ UNCHANGED <<clashConfStr, cmdProcess, spawnAttempted, enableCalls,
                   disableCalls, disableErr, killIssued>>
    /\ UNCHANGED <<ccStr, ccAfterCancel, ccSame, inflight, results, reloadGens>>
    /\ UNCHANGED <<watchVars, ctxVars, worldVars>>

-----------------------------------------------------------------------------
(* Reload consumer goroutine: for ccStr := range updateCh { ... }          *)

(* The outcome lines the loop body logs for ccStr, in order: one error     *)
(* line on each continue; after a non-2xx response the status error of     *)
(* line 140 and then, with no continue, the success line of line 143.      *)
OutcomeLogs(outcome) ==
    CASE outcome = "invalid"        -> <<"config_error">>
      [] outcome = "write_failed"   -> <<"copy_failed">>
      [] outcome = "request_failed" -> <<"request_failed">>
      [] outcome = "net_error"      -> <<"reload_failed">>
      [] outcome = "non2xx"         -> <<"reload_failed_status", "reload_success">>
      [] outcome = "ok"             -> <<"reload_success">>

(* The loop is done with ccStr (a continue, or the end of the body).       *)
Finish(outcome) ==
    /\ results' = Append(results, [gen |-> ccStr.gen, outcome |-> outcome,
                                    logs |-> OutcomeLogs(outcome)])
    /\ cpc' = "recv"

(* ConsumerRecv with the next value taken while the previous reload        *)
(* request is still in flight, as a goroutine per value would.             *)
ConsumerRecv_Overlap ==
    /\ Alive
    /\ cpc \in {"recv", "http"}
    /\ updateCh # <<>>
    /\ ccStr' = Head(updateCh)
    /\ updateCh' = Tail(updateCh)
    /\ ccAfterCancel' = ctxDone
    /\ ccSame' = (Head(updateCh).text = file)
    /\ cpc' = "check"
    /\ UNCHANGED <<inflight, results, reloadGens, sent>>
    /\ UNCHANGED <<mainVars, ctxVars, worldVars>>

(* The range clause receives the next value.                               *)
ConsumerRecv ==
    /\ Alive
    /\ cpc = "recv"
    /\ updateCh # <<>>
    /\ ccStr' = Head(updateCh)
    /\ updateCh' = Tail(updateCh)
    /\ ccAfterCancel' = ctxDone
    /\ ccSame' = (Head(updateCh).text = file)
    /\ cpc' = "check"
    /\ UNCHANGED <<inflight, results, reloadGens, sent>>
    /\ UNCHANGED <<mainVars, ctxVars, worldVars>>

(* ConsumerCheck without the continue of line 108.                         *)
ConsumerCheck_NoSkip ==
    /\ Alive
    /\ cpc = "check"
    /\ ccStr' = [ccStr EXCEPT !.text = AutoFix(ccStr.text)]
    /\ cpc' = "write"
    /\ UNCHANGED <<ccAfterCancel, ccSame, inflight, reloadGens, results>>
    /\ UNCHANGED <<mainVars, watchVars, ctxVars, worldVars>>

(* ccStr = AutoFix(ccStr); cc, err := CheckConfig(ccStr); on an error the  *)
(* update is skipped.                                                      *)
ConsumerCheck ==
    /\ Alive
    /\ cpc = "check"
    /\ ccStr' = [ccStr EXCEPT !.text = AutoFix(ccStr.text)]
    /\ IF CheckConfigOk(AutoFix(ccStr.text))
       THEN /\ cpc' = "write"
            /\ UNCHANGED results
       ELSE Finish("invalid")
    /\ UNCHANGED <<ccAfterCancel, ccSame, inflight, reloadGens>>
    /\ UNCHANGED <<mainVars, watchVars, ctxVars, worldVars>>

(* ConsumerWrite without the continue of line 113.                         *)
ConsumerWrite_NoSkip ==
    /\ Alive
    /\ cpc = "write"
    /\ \E ok \in BOOLEAN : file' \in WriteFile(file, ccStr.text, ok)
    /\ cpc' = "request"
    /\ UNCHANGED <<ccStr, ccAfterCancel, ccSame, inflight, reloadGens, results>>
    /\ UNCHANGED <<engine, engineConf, proxy>>
    /\ UNCHANGED <<mainVars, watchVars, ctxVars>>

(* os.WriteFile(clashConfPath, ccStr); on an error the reload is skipped.  *)
ConsumerWrite ==
    /\ Alive
    /\ cpc = "write"
    /\ \E ok \in BOOLEAN :
         /\ file' \in WriteFile(file, ccStr.text, ok)
         /\ IF ok
            THEN /\ cpc' = "request"
                 /\ UNCHANGED results
            ELSE Finish("write_failed")
    /\ UNCHANGED <<ccStr, ccAfterCancel, ccSame, inflight, reloadGens>>
    /\ UNCHANGED <<engine, engineConf, proxy>>
    /\ UNCHANGED <<mainVars, watchVars, ctxVars>>

(* http.NewRequest("PUT", ...) and the start of cli.Do(req): a request     *)
(* that could not be built is skipped, otherwise it is sent.               *)
ConsumerRequest ==
    /\ Alive
    /\ cpc = "request"
    /\ \E ok \in BOOLEAN :
         IF ok
         THEN /\ inflight' = inflight + 1
              /\ reloadGens' = reloadGens \cup {ccStr.gen}
              /\ cpc' = "http"
              /\ UNCHANGED results
         ELSE /\ Finish("request_failed")
              /\ UNCHANGED <<inflight, reloadGens>>
    /\ UNCHANGED <<ccStr, ccAfterCancel, ccSame>>
    /\ UNCHANGED <<mainVars, watchVars, ctxVars, worldVars>>

(* What cli.Do can return: a response needs a running engine.              *)
HttpOutcomes ==
    IF engine = "running" THEN {"ok", "non2xx", "net_error"} ELSE {"net_error"}

(* ConsumerResponse with a failed reload request sent again.               *)
ConsumerResponse_Retry ==
    /\ Alive
    /\ cpc = "http"
    /\ inflight' = inflight - 1
    /\ \E out \in HttpOutcomes :
         /\ engineConf' = IF out = "ok" THEN file ELSE engineConf
         /\ IF out = "ok"
            THEN Finish(out)
            ELSE cpc' = "request" /\ UNCHANGED results
    /\ UNCHANGED <<ccStr, ccAfterCancel, ccSame, reloadGens>>
    /\ UNCHANGED <<file, engine, proxy>>
    /\ UNCHANGED <<mainVars, watchVars, ctxVars>>

(* ConsumerResponse with EnableProxy called again after a reload.          *)
ConsumerResponse_ReEnable ==
    /\ Alive
    /\ cpc = "http"
    /\ inflight' = inflight - 1
    /\ \E out \in HttpOutcomes :
         /\ engineConf' = IF out = "ok" THEN file ELSE engineConf
         /\ Finish(out)
    /\ enableCalls' = enableCalls + 1
    /\ proxy' = RulesAfterEnable(TRUE, proxy)
    /\ UNCHANGED <<ccStr, ccAfterCancel, ccSame, reloadGens>>
    /\ UNCHANGED <<file, engine>>
    /\ UNCHANGED <<pc, clashConfStr, cmdProcess, spawnAttempted, disableCalls,
                   disableErr, killIssued>>
    /\ UNCHANGED <<watchVars, ctxVars>>

(* cli.Do(req) returns and lines 131-143 handle the result; on a 2xx the   *)
(* engine has reloaded from clashConfPath.                                 *)
ConsumerResponse ==
    /\ Alive
    /\ cpc = "http"
    /\ inflight' = inflight - 1
    /\ \E out \in HttpOutcomes :
         /\ engineConf' = IF out = "ok" THEN file ELSE engineConf
         /\ Finish(out)
    /\ UNCHANGED <<ccStr, ccAfterCancel, ccSame, reloadGens>>
    /\ UNCHANGED <<file, engine, proxy>>
    /\ UNCHANGED <<mainVars, watchVars, ctxVars>>

-----------------------------------------------------------------------------
(* Main control flow: shutdown                                             *)

(* AwaitDone with the DisableProxy call left out of the shutdown path.     *)
AwaitDone_SkipDisable ==
    /\ pc = "wait"
    /\ ctxDone
    /\ pc' = "kill"
    /\ UNCHANGED <<clashConfStr, cmdProcess, spawnAttempted, enableCalls,
                   disableCalls, disableErr, killIssued>>
    /\ UNCHANGED <<consumerVars, watchVars, ctxVars, worldVars>>

(* <-ctx.Done()                                                            *)
AwaitDone ==
    /\ pc = "wait"
    /\ ctxDone
    /\ pc' = "disable"
    /\ UNCHANGED <<clashConfStr, cmdProcess, spawnAttempted, enableCalls,
                   disableCalls, disableErr, killIssued>>
    /\ UNCHANGED <<consumerVars, watchVars, ctxVars, worldVars>>

(* DisableProxy called only when there is no child process to kill.       *)
DisableProxy_OnlyWithoutProcess ==
    /\ pc = "disable"
    /\ IF cmdProcess
       THEN UNCHANGED <<disableCalls, disableErr, proxy>>
       ELSE /\ disableCalls' = disableCalls + 1
            /\ \E ok \in BOOLEAN :
                 /\ proxy' = RulesAfterDisable(ok, proxy)
                 /\ disableErr' = ~ok
    /\ pc' = "kill"
    /\ UNCHANGED <<clashConfStr, cmdProcess, spawnAttempted, enableCalls,
                   killIssued, file, engine, engineConf>>
    /\ UNCHANGED <<consumerVars, watchVars, ctxVars>>

(* DisableProxy with the error fatal, as the EnableProxy error is.         *)
DisableProxy_ErrorFatal ==
    /\ pc = "disable"
    /\ disableCalls' = disableCalls + 1
    /\ \E ok \in BOOLEAN :
         /\ proxy' = RulesAfterDisable(ok, proxy)
         /\ disableErr' = ~ok
         /\ pc' = IF ok THEN "kill" ELSE "fatal"
    /\ UNCHANGED <<clashConfStr, cmdProcess, spawnAttempted, enableCalls,
                   killIssued, file, engine, engineConf>>
    /\ UNCHANGED <<consumerVars, watchVars, ctxVars>>

(* proxyMode.DisableProxy(); an error is logged and shutdown goes on.      *)
DisableProxy ==
    /\ pc = "disable"
    /\ disableCalls' = disableCalls + 1
    /\ \E ok \in BOOLEAN :
         /\ proxy' = RulesAfterDisable(ok, proxy)
         /\ disableErr' = ~ok
    /\ pc' = "kill"
    /\ UNCHANGED <<clashConfStr, cmdProcess, spawnAttempted, enableCalls,
                   killIssued, file, engine, engineConf>>
    /\ UNCHANGED <<consumerVars, watchVars, ctxVars>>

(* KillProcess without the nil check of line 156.                          *)
KillProcess_NoNilCheck ==
    /\ pc = "kill"
    /\ killIssued' = TRUE
    /\ \E ok \in BOOLEAN :
         engine' = IF ok /\ engine = "running" THEN "killed" ELSE engine
    /\ pc' = "stopped"
    /\ UNCHANGED <<clashConfStr, cmdProcess, spawnAttempted, enableCalls,
                   disableCalls, disableErr, file, engineConf, proxy>>
    /\ UNCHANGED <<consumerVars, watchVars, ctxVars>>

(* if cmd.Process != nil { cmd.Process.Kill() }; an error is logged.  Run  *)
(* then returns.                                                           *)
KillProcess ==
    /\ pc = "kill"
    /\ IF cmdProcess
       THEN /\ killIssued' = TRUE
            /\ \E ok \in BOOLEAN :
                 engine' = IF ok /\ engine = "running" THEN "killed" ELSE engine
       ELSE UNCHANGED <<killIssued, engine>>
    /\ pc' = "stopped"
    /\ UNCHANGED <<clashConfStr, cmdProcess, spawnAttempted, enableCalls,
                   disableCalls, disableErr, file, engineConf, proxy>>
    /\ UNCHANGED <<consumerVars, watchVars, ctxVars>>

-----------------------------------------------------------------------------
(* The engine                                                              *)

(* The child process exits on its own; nothing in Run waits for it.        *)
EngineExit ==
    /\ engine = "running"
    /\ engine' = "exited"
    /\ UNCHANGED <<file, engineConf, proxy>>
    /\ UNCHANGED <<mainVars, consumerVars, watchVars, ctxVars>>

-----------------------------------------------------------------------------
Next ==
    \/ Signal
    \/ WatchConfig
    \/ WatchTick
    \/ RecvFirst
    \/ CheckFirst
    \/ WriteFirst
    \/ CmdStart
    \/ NewProxyMode
    \/ EnableProxy
    \/ GoReload
    \/ ConsumerRecv
    \/ ConsumerCheck
    \/ ConsumerWrite
    \/ ConsumerRequest
    \/ ConsumerResponse
    \/ AwaitDone
    \/ DisableProxy
    \/ KillProcess
    \/ EngineExit

Spec == Init /\ [][Next]_vars

(* The main flow is one goroutine whose calls return: from the spawn on,   *)
(* a step of the main flow that can be taken is eventually taken.          *)
FairSpec ==
    /\ Spec
    /\ WF_vars(NewProxyMode)
    /\ WF_vars(EnableProxy)
    /\ WF_vars(GoReload)
    /\ WF_vars(AwaitDone)
    /\ WF_vars(DisableProxy)
    /\ WF_vars(KillProcess)

-----------------------------------------------------------------------------
(* Properties                                                              *)

(* C1: whenever Process.Kill has been issued, ctx was cancelled by one of  *)
(* the three signals and DisableProxy has already been invoked.            *)
C1_DisableBeforeKill ==
    killIssued => (cause \in Signals /\ disableCalls >= 1)

C1_Witness ==
    killIssued /\ cause = "SIGHUP" /\ disableCalls = 1

(* C2: in every state in which redirection is enabled, the engine process  *)
(* was spawned and has neither exited nor been killed.                     *)
C2_EnabledImpliesEngine ==
    proxy = "Enabled" => engine = "running"

(* C3 as stated: once Process.Kill has been issued redirection is          *)
(* Disabled, also when DisableProxy returned an error.                     *)
C3_DisabledAtKill ==
    killIssued => proxy = "Disabled"

(* C3, amended: once Process.Kill has been issued, redirection is Disabled *)
(* in every run in which DisableProxy returned no error.                   *)
C3_DisabledAtKillUnlessError ==
    (killIssued /\ ~disableErr) => proxy = "Disabled"

C3_Witness ==
    killIssued /\ ~disableErr /\ enableCalls = 1 /\ proxy = "Disabled"

(* C4: when the first configuration text has failed validation the run is *)
(* fatal: the config file is not written, the engine is not spawned,       *)
(* EnableProxy is not called and the reload consumer is not started.       *)
C4_InvalidFirstIsFatal ==
    (pc \notin {"watch", "recv_first", "check"}
        /\ ~CheckConfigOk(clashConfStr.text))
    => /\ pc = "fatal"
       /\ file = NoText
       /\ ~spawnAttempted
       /\ engine = "none"
       /\ enableCalls = 0
       /\ proxy = "Disabled"
       /\ cpc = "off"

C4_Witness ==
    pc = "fatal" /\ clashConfStr.gen = 1 /\ clashConfStr.text = "B?"

(* C5: the spawn is attempted only after the first value was received,     *)
(* validated and persisted, and EnableProxy is invoked only after a spawn  *)
(* attempt.                                                                *)
C5_StartupOrder ==
    /\ spawnAttempted =>
          /\ clashConfStr.gen = 1
          /\ CheckConfigOk(clashConfStr.text)
          /\ (cpc = "off" => file = clashConfStr.text)
    /\ enableCalls >= 1 => spawnAttempted

C5_Witness ==
    spawnAttempted /\ ~cmdProcess /\ enableCalls = 1 /\ proxy = "Enabled"

(* Generations the consumer has finished with one of the given outcomes.   *)
GensWith(outcomes) ==
    {results[i].gen : i \in {j \in 1..Len(results) : results[j].outcome \in outcomes}}

Max(S) == CHOOSE x \in S : \A y \in S : y <= x

(* Update g passes validation after the auto-fix pass.                     *)
ValidUpdate(g) == CheckConfigOk(AutoFix(sent[g]))

(* The consumer has processed every update emitted so far.                 *)
Processed ==
    /\ Len(sent) >= 2
    /\ cpc = "recv"
    /\ updateCh = <<>>
    /\ Len(results) = Len(sent) - 1

(* The last update that is valid, or the first configuration.              *)
LastValidGen == Max({1} \cup {g \in 2..Len(sent) : ValidUpdate(g)})

(* The last valid update the consumer wrote, and the last one the engine   *)
(* answered with a 2xx; the first configuration when there is none.        *)
LastWrittenGen ==
    Max({1} \cup {g \in GensWith({"request_failed", "net_error", "non2xx", "ok"}) :
                     ValidUpdate(g)})
LastAppliedGen == Max({1} \cup {g \in GensWith({"ok"}) : ValidUpdate(g)})

(* C6 as stated: after all updates are processed the persisted file and    *)
(* the engine's applied configuration are the last valid update.           *)
C6_LastValidInForce ==
    Processed =>
       /\ file = AutoFix(sent[LastValidGen])
       /\ engine # "none" => engineConf = AutoFix(sent[LastValidGen])

(* C6, amended: after all updates are processed the persisted file is the  *)
(* auto-fixed text of the last valid update whose write succeeded (or may  *)
(* be cut short when the write of a later valid update failed), and the    *)
(* engine's applied configuration is the auto-fixed text of the last valid *)
(* update whose reload request was answered with a 2xx; each is the first  *)
(* configuration when there is no such update.                             *)
C6_LastAcceptedInForce ==
    Processed =>
       /\ IF \E f \in GensWith({"write_failed"}) : f > LastWrittenGen
          THEN file \in {AutoFix(sent[LastWrittenGen]), Truncated}
          ELSE file = AutoFix(sent[LastWrittenGen])
       /\ engine # "none" => engineConf = AutoFix(sent[LastAppliedGen])

C6_Witness ==
    /\ Processed
    /\ Len(results) >= 2
    /\ results[1].outcome = "invalid"
    /\ results[2].outcome = "ok"
    /\ sent[3] = "B?"
    /\ file = "B"
    /\ engineConf = "B"

(* C7: when a signal arrived while a reload request was in flight,         *)
(* DisableProxy is not invoked before that request has returned.           *)
C7_ShutdownAfterReloadReturns ==
    [][(sigInflight # 0 /\ disableCalls' # disableCalls)
          => ~(cpc = "http" /\ ccStr.gen = sigInflight)]_vars

(* C8: once ctx is cancelled the main flow starts no EnableProxy, and the  *)
(* consumer starts no file write and no reload request for a value it      *)
(* received after the cancellation.                                        *)
C8_NothingStartedAfterCancel ==
    [][ctxDone =>
          /\ enableCalls' = enableCalls
          /\ ccAfterCancel =>
                /\ ~(cpc = "write" /\ cpc' # "write")
                /\ inflight' <= inflight]_vars

(* C9: the consumer takes the values after the first in generation order   *)
(* and one at a time: at most one reload request is in flight, and the     *)
(* value being processed is the one right after the last finished one.     *)
C9_OneAtATimeInOrder ==
    /\ inflight = (IF cpc = "http" THEN 1 ELSE 0)
    /\ \A i \in 1..Len(results) : results[i].gen = i + 1
    /\ cpc \in {"check", "write", "request", "http"} =>
          /\ ccStr.gen = Len(results) + 2
          /\ \A i \in 1..Len(updateCh) : updateCh[i].gen = ccStr.gen + i

C9_Witness ==
    /\ cpc = "http"
    /\ ccStr.gen = 3
    /\ Len(results) = 1
    /\ results[1].outcome = "ok"

(* C10: the value used for startup is the first one delivered, whatever is *)
(* buffered behind it, and no reload is ever processed or requested for    *)
(* that value.                                                             *)
C10_FirstValueIsStartup ==
    /\ pc \notin {"watch", "recv_first", "fatal"} =>
          clashConfStr = [gen |-> 1, text |-> sent[1]]
    /\ clashConfStr # NoValue =>
          clashConfStr = [gen |-> 1, text |-> sent[1]]
    /\ (spawnAttempted /\ cpc = "off") => file = sent[1]
    /\ (engine # "none" /\ cpc = "off") => engineConf = sent[1]
    /\ 1 \notin reloadGens
    /\ cpc \in {"check", "write", "request", "http"} => ccStr.gen # 1
    /\ \A i \in 1..Len(results) : results[i].gen # 1

C10_Witness ==
    /\ engine = "running"
    /\ engineConf = sent[1]
    /\ cpc = "off"
    /\ Len(updateCh) >= 2

(* C11: a later value received equal to the contents of the config file    *)
(* starts no write of the file and no reload request.                      *)
C11_SameContentNoReload ==
    [][ccSame =>
          /\ ~(cpc = "write" /\ cpc' # "write")
          /\ inflight' <= inflight]_vars

(* C12 as stated: EnableProxy and DisableProxy are each invoked at most    *)
(* once, Enable before Disable, and a run that has stopped has invoked     *)
(* each once and has taken redirection to Enabled and back to Disabled.    *)
C12_OnceEachAndDisabledAtStop ==
    /\ enableCalls <= 1
    /\ disableCalls <= 1
    /\ disableCalls = 1 => enableCalls = 1
    /\ pc = "stopped" =>
          /\ enableCalls = 1
          /\ disableCalls = 1
          /\ proxy = "Disabled"

(* C12, amended: EnableProxy and DisableProxy are each invoked at most     *)
(* once, Enable before Disable, exactly once each in a run that has        *)
(* stopped; redirection changes only in the main flow's EnableProxy and    *)
(* DisableProxy steps, never in a step of the reload consumer, and is      *)
(* Disabled at the stop when DisableProxy returned no error.               *)
C12_OnceEach ==
    /\ [](/\ enableCalls <= 1
          /\ disableCalls <= 1
          /\ disableCalls = 1 => enableCalls = 1
          /\ pc = "stopped" =>
                /\ enableCalls = 1
                /\ disableCalls = 1
                /\ ~disableErr => proxy = "Disabled")
    /\ [][/\ proxy' # proxy =>
                \/ pc = "enable" /\ proxy = "Disabled" /\ proxy' = "Enabled"
                \/ pc = "disable" /\ proxy = "Enabled" /\ proxy' = "Disabled"
          /\ (enableCalls' # enableCalls \/ disableCalls' # disableCalls) =>
                cpc' = cpc /\ results' = results]_vars

C12_Witness ==
    /\ pc = "stopped"
    /\ enableCalls = 1
    /\ disableCalls = 1
    /\ proxy = "Disabled"
    /\ reloadGens # {}

(* C13: when EnableProxy has failed the run is fatal with redirection      *)
(* Disabled, the reload consumer not started and no DisableProxy and no    *)
(* reload request issued; a run that goes on after EnableProxy has         *)
(* redirection Enabled until DisableProxy is invoked.                      *)
C13_EnableFailureIsFatal ==
    /\ (enableCalls = 1 /\ pc = "fatal") =>
          /\ proxy = "Disabled"
          /\ cpc = "off"
          /\ disableCalls = 0
          /\ reloadGens = {}
          /\ results = <<>>
    /\ (enableCalls = 1 /\ pc # "fatal" /\ disableCalls = 0) => proxy = "Enabled"

C13_Witness ==
    pc = "fatal" /\ enableCalls = 1 /\ engine = "running" /\ proxy = "Disabled"

(* C14: once startup has finished and ctx is cancelled the supervisor      *)
(* eventually stops, and it gets there only by the steps wait -> disable   *)
(* -> kill -> stopped, whatever DisableProxy and Process.Kill return and   *)
(* whatever the reload consumer is doing.                                  *)
C14_ShutdownCompletes ==
    /\ (pc = "wait" /\ ctxDone) ~> (pc = "stopped")
    /\ [][/\ pc = "wait" => pc' \in {"wait", "disable"}
          /\ pc = "disable" => pc' \in {"disable", "kill"}
          /\ pc = "kill" => pc' \in {"kill", "stopped"}
          /\ pc = "stopped" => pc' = "stopped"]_vars

C14_Witness ==
    /\ pc = "stopped"
    /\ disableErr
    /\ killIssued
    /\ engine = "running"
    /\ cpc = "http"

(* The step of the loop body that follows each position when nothing      *)
(* fails.                                                                  *)
NextStage(at) ==
    CASE at = "check"   -> "write"
      [] at = "write"   -> "request"
      [] at = "request" -> "http"
      [] at = "http"    -> "recv"

(* C15: every failure while processing an update ends the processing of    *)
(* that update: the consumer is back at the receive with the update        *)
(* recorded once, no step is taken again, the engine process, the engine's *)
(* configuration and the proxy state are as before, and a file already     *)
(* written for the update stays as written.                                *)
C15_FailuresRecoverable ==
    [][(cpc \in {"check", "write", "request", "http"} /\ cpc' # cpc) =>
          /\ cpc' \in {NextStage(cpc), "recv"}
          /\ cpc' = "recv" =>
                /\ Len(results') = Len(results) + 1
                /\ results'[Len(results')].gen = ccStr.gen
                /\ ccStr.gen \notin {results[i].gen : i \in 1..Len(results)}
                /\ results'[Len(results')].outcome # "ok" =>
                      /\ engine' = engine
                      /\ engineConf' = engineConf
                      /\ proxy' = proxy
                      /\ enableCalls' = enableCalls
                      /\ disableCalls' = disableCalls
                      /\ killIssued' = killIssued
                      /\ cpc = "check" => file' = file
                      /\ cpc \in {"request", "http"} =>
                            file' = file /\ file = ccStr.text]_vars

C15_Witness ==
    /\ Len(results) >= 2
    /\ results[1].outcome = "non2xx"
    /\ results[2].outcome = "ok"
    /\ sent[2] = "A"
    /\ sent[3] = "B?"
    /\ file = "B"

(* C16: a reload request is sent only for an update that passed validation *)
(* after the auto-fix and whose text is what the config file now holds; an *)
(* invalid update is neither written nor requested, and an update whose    *)
(* write failed is not requested.                                          *)
C16_ReloadOnlyAfterPersist ==
    /\ cpc \in {"write", "request", "http"} =>
          /\ ValidUpdate(ccStr.gen)
          /\ ccStr.text = AutoFix(sent[ccStr.gen])
    /\ cpc \in {"request", "http"} => file = ccStr.text
    /\ \A g \in reloadGens :
          /\ ValidUpdate(g)
          /\ g \notin GensWith({"invalid", "write_failed", "request_failed"})
    /\ \A i \in 1..Len(results) :
          results[i].outcome = "invalid" <=> ~ValidUpdate(results[i].gen)
    /\ CheckConfigOk(file) \/ file \in {NoText, Truncated}

C16_Witness ==
    /\ Len(results) = 1
    /\ results[1].outcome = "write_failed"
    /\ cpc = "http"
    /\ reloadGens = {3}

(* The spawn was attempted and failed.                                     *)
SpawnFailed == spawnAttempted /\ ~cmdProcess

(* C17: after a failed spawn ctx is cancelled and the run goes on: there   *)
(* is no engine and no kill is ever issued, EnableProxy is still invoked   *)
(* once the proxy mode exists, and when it succeeds the consumer is        *)
(* started and the run reaches the stop with DisableProxy invoked.         *)
C17_SpawnFailureFallsThrough ==
    /\ [](SpawnFailed =>
            /\ ctxDone
            /\ engine = "none"
            /\ ~killIssued
            /\ pc \in {"newproxy", "enable", "go", "wait", "disable", "kill",
                       "stopped", "fatal"})
    /\ (SpawnFailed /\ pc = "enable") ~> (enableCalls = 1)
    /\ (SpawnFailed /\ proxy = "Enabled") ~>
          (pc = "stopped" /\ cpc # "off" /\ disableCalls = 1 /\ ~killIssued)

C17_Witness ==
    /\ SpawnFailed
    /\ pc = "stopped"
    /\ cause = "cancel"
    /\ enableCalls = 1
    /\ disableCalls = 1
    /\ cpc # "off"
    /\ ~killIssued

(* C18: a reload attempt that got an HTTP response logs one outcome line,  *)
(* the success line exactly when the status was 2xx.                       *)
C18_OneOutcomeLogged ==
    \A i \in 1..Len(results) :
        results[i].outcome \in {"ok", "non2xx"} =>
           /\ Len(results[i].logs) = 1
           /\ results[i].logs[1] = "reload_success" <=> results[i].outcome = "ok"

(* C19: the config file is never written by two tasks at once: while the   *)
(* main flow is at or before its write the consumer does not exist, the    *)
(* consumer exists only once the startup write is done, and the value the  *)
(* consumer is writing is one it has not finished with before.             *)
C19_SingleWriter ==
    /\ pc \in {"watch", "recv_first", "check", "write"} => cpc = "off"
    /\ cpc # "off" =>
          /\ pc \in {"wait", "disable", "kill", "stopped"}
          /\ file # NoText
    /\ cpc = "write" =>
          ccStr.gen \notin {results[i].gen : i \in 1..Len(results)} \cup {1}

C19_Witness ==
    /\ cpc = "write"
    /\ pc = "wait"
    /\ Len(results) = 1
    /\ results[1].outcome = "ok"
    /\ file = "A"
    /\ ccStr.text = "B"

(* C20: when the supervisor process has ended after a successful spawn, a  *)
(* kill has been issued to the engine.                                     *)
C20_NoOrphanEngine ==
    (~Alive /\ cmdProcess) => killIssued

=============================================================================
